---- MODULE Spec2Model ----
(***************************************************************************)
(* A model of the solar-system scene scripts of tmasha.github.io.          *)
(*                                                                         *)
(* The repository holds four successive versions of the same script:       *)
(*   "v1"  src/unnamed/part_000 lines 304-561 (setPeriods / setTilts,      *)
(*         camera starts at x = -7)                                        *)
(*   "v2"  src/main.js lines 1-277            (documented, hard-coded)     *)
(*   "v3"  src/unnamed/part_000 lines 1-303   (refactored, tilts batched)  *)
(*   "v4"  src/main.js lines 278-641          (data-driven from BODIES)    *)
(*                                                                         *)
(* Numbers.  The scripts compute with IEEE doubles; the model computes     *)
(* with integers in fixed units, and every division rounds to the nearest  *)
(* unit, symmetrically in the sign (as IEEE division is):                  *)
(*   angles of bodies   TWO_PI units to the turn, so that Math.PI * 2,     *)
(*                      0.5 * Math.PI and Math.PI / 180 are exact;         *)
(*   day / year lengths thousandths of a day;                              *)
(*   degrees            thousandths of a degree;                           *)
(*   lengths, camera    1 / FX of a scene unit, camera.rotation.x in       *)
(*                      1 / FX of a radian;                                *)
(*   aspect             thousandths.                                       *)
(* Sums of fixed-point numbers are exact, so the rounding of repeated      *)
(* floating-point additions is not modelled.                               *)
(***************************************************************************)
EXTENDS Integers, Sequences, FiniteSets, TLC

VARIABLES
    variant,      \* which of the four scripts runs
    BODIES,       \* the body registry (v4: data/bodies.js; v1-v3: the literals)
    pc,           \* position of the top-level script, then "idle"
    idx,          \* index of the body the script is working on
    bodyObjects,  \* id -> { body, pivot, ring?, orbit }
    scene,        \* nodes added to the scene root
    camera,       \* camera position, rotation, aspect
    window,       \* <<innerWidth, innerHeight>>
    renderer,     \* the size the renderer (and composer) was last set to
    scrollTop,    \* document.body.getBoundingClientRect().top
    sun,          \* flare sprite and sun light (v4)
    frame,        \* number of animate() calls so far
    rafPending,   \* callbacks requested with requestAnimationFrame, not yet run
    renders,      \* number of render calls issued
    calls,        \* per body: how often it was tilted and advanced
    randomPhase,  \* per body: the values Math.random() * TWO_PI returned
    sameScrolls,  \* runs of moveCamera at the present scrollTop (counted to 2)
    tick,         \* the last run of animate: bodies advanced when it re-armed, when it rendered
    last          \* the step taken last

vars == <<variant, BODIES, pc, idx, bodyObjects, scene, camera, window,
          renderer, scrollTop, sun, frame, rafPending, renders, calls, randomPhase,
          sameScrolls, tick, last>>

----------------------------------------------------------------------------
(* Bounds of the model *)

MaxFrames == 3

----------------------------------------------------------------------------
(* Numeric representation *)

FX == 10000

Abs(n) == IF n < 0 THEN -n ELSE n

Sgn(n) == IF n < 0 THEN -1 ELSE IF n > 0 THEN 1 ELSE 0

\* a / b of two numbers, rounded to the nearest unit, symmetric in the sign
RoundDiv(a, b) == Sgn(a) * Sgn(b) * ((Abs(a) + (Abs(b) \div 2)) \div Abs(b))

\* x * n / d without overflowing 32 bits (0 <= n <= d)
MulDiv(x, n, d) ==
    Sgn(x) * (((Abs(x) \div d) * n) + RoundDiv((Abs(x) % d) * n, d))

\* the decimal literal num / den in units of 1 / FX
Fx(num, den) == (num * FX) \div den

Min(a, b) == IF a < b THEN a ELSE b

Max(a, b) == IF a > b THEN a ELSE b

\* the double Infinity, and the sum of two doubles that are not both finite
INFINITY == 2000000000

Add(a, b) == IF a = INFINITY \/ b = INFINITY THEN INFINITY ELSE a + b

\* JavaScript values that are not plain numbers
Undefined == [type |-> "undefined"]

Null == [type |-> "null"]

NaN == [type |-> "NaN"]

JSNum(n) == [type |-> "number", v |-> n]

\* `if (v)` for an object, undefined or null
Truthy(v) == v.type \notin {"undefined", "null", "NaN"}

----------------------------------------------------------------------------
(* Constants of the scripts *)

TWO_PI == 4320000

HALF_PI == TWO_PI \div 4

\* Math.PI / 180, per thousandth of a degree
DEG_TO_RAD == TWO_PI \div 360000

SECONDS_PER_DAY == 86400

MILLI == 1000

ROTATION_SCALE == 77

ORBIT_SCALE == 25000

INIT_X == 0

INIT_Y == 0

INIT_Z == 10

LEGACY_INIT_X == -7

END_X == 0

END_Y == 300

END_Z == 1500

\* -0.35
END_ROTATION_X == Fx(-35, 100)

SCROLL_DISTANCE == 2000

FLARE_BASE_SCALE == 18

\* 0.45, 0.35, 1.6, 0.25
FLARE_BASE_OPACITY == Fx(45, 100)

FLARE_PULSE_AMPL == Fx(35, 100)

SUN_BASE_INTENSITY == Fx(16, 10)

SUN_PULSE_AMPL == Fx(25, 100)

\* distance * 0.7
ORBIT_DISTANCE_SCALE(distance) == (distance * 7) \div 10

\* km * 2e-4, in units of 1 / FX
RADIUS_SCALE(km) == km * 2

\* km * 4e-7, in units of 1 / FX
DISTANCE_SCALE(km) == RoundDiv(km, 250)

----------------------------------------------------------------------------
(* The body registry *)

\* One literal body of v1-v3: createBody(name, radius, distance, ringRadii),
\* applyTiltAndInclination(_, tilt, incl), advanceRotationAndOrbit(_, day, year)
Planet(name, radius, distance, ringRadii, tilt, incl, day, year) ==
    [id |-> name, radius |-> radius, distance |-> distance,
     ringRadii |-> ringRadii, axialTiltDeg |-> tilt, inclinationDeg |-> incl,
     rotationDays |-> day, orbitalDays |-> JSNum(year)]

\* { innerRadius: 10, outerRadius: 20 }
SaturnRings ==
    [type |-> "object", innerRadius |-> JSNum(Fx(10, 1)),
     outerRadius |-> JSNum(Fx(20, 1))]

\* the nine literal bodies, in the order the scripts create them
\* (Mars's day length 1.02749125 is kept to the thousandth)
PLANETS ==
    << Planet("mercury", Fx(1, 1),  Fx(25, 1),  Undefined,   2040,   7000,   59000,  120000),
       Planet("venus",   Fx(3, 1),  Fx(50, 1),  Undefined,   2640,   3390,   -243000, 224700),
       Planet("earth",   Fx(3, 1),  Fx(75, 1),  Undefined,   23439,  0,      1000,   365256),
       Planet("mars",    Fx(15, 10), Fx(100, 1), Undefined,  25190,  1850,   1027,   686980),
       Planet("jupiter", Fx(10, 1), Fx(200, 1), Undefined,   3130,   1300,   420,    1200000),
       Planet("saturn",  Fx(9, 1),  Fx(300, 1), SaturnRings, 26730,  2490,   460,    1400000),
       Planet("uranus",  Fx(6, 1),  Fx(400, 1), Undefined,   97770,  770,    710,    2000000),
       Planet("neptune", Fx(6, 1),  Fx(500, 1), Undefined,   28000,  1770,   670,    4000000),
       Planet("pluto",   Fx(1, 1),  Fx(550, 1), Undefined,   120000, 17200,  6000,   5000000) >>

\* BodyParams records of the data file (v4); a record of a body without rings
\* has no ringInnerKm / ringOuterKm
Sun ==
    [id |-> "sun", radiusKm |-> 696340, distKm |-> 0, rotationDays |-> 25380,
     orbitalDays |-> Null, axialTiltDeg |-> 7250, inclinationDeg |-> 0]

Venus ==
    [id |-> "venus", radiusKm |-> 6052, distKm |-> 108200000,
     rotationDays |-> -243000, orbitalDays |-> JSNum(224700),
     axialTiltDeg |-> 177360, inclinationDeg |-> 3390]

\* Venus spinning the other way: the same record with the day length negated
Prograde ==
    [Venus EXCEPT !.id = "prograde", !.rotationDays = -Venus.rotationDays]

Earth ==
    [id |-> "earth", radiusKm |-> 6371, distKm |-> 149600000,
     rotationDays |-> 997, orbitalDays |-> JSNum(365256),
     axialTiltDeg |-> 23439, inclinationDeg |-> 0]

Saturn ==
    [id |-> "saturn", radiusKm |-> 58232, distKm |-> 1433500000,
     rotationDays |-> 444, orbitalDays |-> JSNum(10759220),
     axialTiltDeg |-> 26730, inclinationDeg |-> 2485,
     ringInnerKm |-> 74500, ringOuterKm |-> 140220]

\* the registries the data-driven script is run on
Registries ==
    { <<Sun, Venus, Earth>>, <<Sun, Saturn>>, <<Venus, Prograde>>, <<Saturn>> }

\* records a loader that validates would turn away: a zero day, a zero year
ZeroDay ==
    [Earth EXCEPT !.id = "zeroday", !.rotationDays = 0]

ZeroYear ==
    [Earth EXCEPT !.id = "zeroyear", !.orbitalDays = JSNum(0)]

MalformedRegistries ==
    { <<Earth, ZeroDay>>, <<ZeroYear, Saturn>>, <<ZeroDay, ZeroYear>> }

Variants == {"v1", "v2", "v3", "v4"}

\* b.field, undefined when the record has no such field
Field(b, name) == IF name \in DOMAIN b THEN JSNum(b[name]) ELSE Undefined

\* BODIES.find(x => x.id === id): the first record with that id
Find(registry, id) ==
    registry[CHOOSE i \in 1..Len(registry) :
                /\ registry[i].id = id
                /\ \A j \in 1..(i - 1) : registry[j].id # id]

----------------------------------------------------------------------------
(* Factory functions *)

Vec(x, y, z) == [x |-> x, y |-> y, z |-> z]

\* new THREE.Mesh(new THREE.RingGeometry(inner, outer), ringMat)
createRing(bodyName, ringRadii) ==
    [geometry |-> [innerRadius |-> ringRadii.innerRadius,
                   outerRadius |-> ringRadii.outerRadius],
     map |-> <<bodyName, "Ring.jpg">>,
     position |-> Vec(0, 0, 0), rotation |-> Vec(0, 0, 0)]

\* v4: a torus of radius `distance`
createOrbit(distance) ==
    [geometry |-> [radius |-> distance], rotation |-> Vec(0, 0, 0)]

\* a torus of the unscaled distance beside a body placed at distance * 0.7
createOrbitUnscaled(distance) ==
    [geometry |-> [radius |-> distance], rotation |-> Vec(0, 0, 0)]

\* v1-v3: a torus of radius distance * 0.7
createOrbitScaled(distance) ==
    [geometry |-> [radius |-> ORBIT_DISTANCE_SCALE(distance)],
     rotation |-> Vec(0, 0, 0)]

\* the mesh, its pivot and its orbit path, before the ring is decided
BodyParts(bodyName, bodyRadius, offset, orbit) ==
    [body  |-> [geometry |-> [radius |-> bodyRadius],
                map |-> <<bodyName, ".jpg">>,
                position |-> Vec(offset, 0, 0), rotation |-> Vec(0, 0, 0)],
     pivot |-> [children |-> {"body"}, rotation |-> Vec(0, 0, 0)],
     orbit |-> [orbit EXCEPT !.rotation.x = @ + HALF_PI]]

\* pivot.add(ring); ring.position.set(offset, 0, 0); ring.rotation.x = -0.5 * Math.PI
WithRing(parts, bodyName, offset, ringRadii) ==
    [body  |-> parts.body,
     ring  |-> [createRing(bodyName, ringRadii) EXCEPT
                   !.position = Vec(offset, 0, 0), !.rotation.x = -HALF_PI],
     pivot |-> [parts.pivot EXCEPT !.children = @ \cup {"ring"}],
     orbit |-> parts.orbit]

\* v4: createBody(bodyName, bodyRadius, distance, ringRadii)
createBody(bodyName, bodyRadius, distance, ringRadii) ==
    LET parts == BodyParts(bodyName, bodyRadius, distance, createOrbit(distance))
    IN  IF Truthy(ringRadii)
        THEN WithRing(parts, bodyName, distance, ringRadii)
        ELSE parts

\* v1-v3: createBody, with every distance scaled by 0.7
createBodyScaled(bodyName, bodyRadius, distance, ringRadii) ==
    LET offset == ORBIT_DISTANCE_SCALE(distance)
        parts  == BodyParts(bodyName, bodyRadius, offset, createOrbitScaled(distance))
    IN  IF Truthy(ringRadii)
        THEN WithRing(parts, bodyName, offset, ringRadii)
        ELSE parts

\* scene.add(pivot); scene.add(orbit)
SceneAdd(sc, bodyName) == sc \cup {<<bodyName, "pivot">>, <<bodyName, "orbit">>}

\* v4, the loop body up to createBody: the scaled arguments of the call
ScaledRadius(b) ==
    IF b.id = "sun"
    THEN RoundDiv(RADIUS_SCALE(b.radiusKm), 50)
    ELSE RADIUS_SCALE(b.radiusKm)

\* undefined * RADIUS_SCALE is NaN
ScaleKm(v) == IF v.type = "number" THEN JSNum(RADIUS_SCALE(v.v)) ELSE NaN

RingParam(b) ==
    [type |-> "object",
     innerRadius |-> ScaleKm(Field(b, "ringInnerKm")),
     outerRadius |-> ScaleKm(Field(b, "ringOuterKm"))]

CreateFromData(b) ==
    createBody(b.id, ScaledRadius(b), DISTANCE_SCALE(b.distKm), RingParam(b))

CreateFromLiteral(b) ==
    createBodyScaled(b.id, b.radius, b.distance, b.ringRadii)

----------------------------------------------------------------------------
(* Transform composer *)

\* (TWO_PI / (days * 86400)) * scale, days in thousandths of a day
ScaledPeriod(days, scale) ==
    IF days = 0
    THEN INFINITY
    ELSE RoundDiv((TWO_PI \div SECONDS_PER_DAY) * scale * MILLI, days)

\* a tilt that sets the rotations (rotation.set(angle, 0, 0)) instead of adding
applyTiltResetting(body, tilt, inclination) ==
    LET t == tilt * DEG_TO_RAD
        i == inclination * DEG_TO_RAD
        tilted == [body EXCEPT !.body.rotation = Vec(t, 0, 0),
                               !.pivot.rotation = Vec(i, 0, 0),
                               !.orbit.rotation.x = @ + i]
    IN  IF "ring" \in DOMAIN body
        THEN [tilted EXCEPT !.ring.rotation.x = @ + t]
        ELSE tilted

applyTiltAndInclination(body, tilt, inclination) ==
    LET t == tilt * DEG_TO_RAD
        i == inclination * DEG_TO_RAD
        tilted == [body EXCEPT !.body.rotation.x = @ + t,
                               !.pivot.rotation.x = @ + i,
                               !.orbit.rotation.x = @ + i]
    IN  IF "ring" \in DOMAIN body
        THEN [tilted EXCEPT !.ring.rotation.x = @ + t]
        ELSE tilted

\* an advance with the spin moved inside the yearLength guard
advanceSpinInsideGuard(body, dayLength, yearLength) ==
    IF yearLength.type \notin {"null", "undefined"}
    THEN [body EXCEPT
            !.body.rotation.y = @ + ScaledPeriod(dayLength, ROTATION_SCALE),
            !.pivot.rotation.y = @ + ScaledPeriod(yearLength.v, ORBIT_SCALE)]
    ELSE body

\* an advance that subtracts the orbital period
advanceOrbitBackwards(body, dayLength, yearLength) ==
    LET spun == [body EXCEPT
                    !.body.rotation.y = @ + ScaledPeriod(dayLength, ROTATION_SCALE)]
    IN  IF yearLength.type \notin {"null", "undefined"}
        THEN [spun EXCEPT !.pivot.rotation.y =
                              @ - ScaledPeriod(yearLength.v, ORBIT_SCALE)]
        ELSE spun

\* an advance that takes Math.abs(dayLength)
advanceAbsDay(body, dayLength, yearLength) ==
    LET spun == [body EXCEPT
                    !.body.rotation.y = @ + ScaledPeriod(Abs(dayLength), ROTATION_SCALE)]
    IN  IF yearLength.type \notin {"null", "undefined"}
        THEN [spun EXCEPT !.pivot.rotation.y =
                              @ + ScaledPeriod(yearLength.v, ORBIT_SCALE)]
        ELSE spun

\* an advance that also spins the ring with the body
advanceSpinningRing(body, dayLength, yearLength) ==
    LET rotationPeriod == ScaledPeriod(dayLength, ROTATION_SCALE)
        spun == [body EXCEPT !.body.rotation.y = Add(@, rotationPeriod)]
        both == IF "ring" \in DOMAIN body
                THEN [spun EXCEPT !.ring.rotation.y = Add(@, rotationPeriod)]
                ELSE spun
    IN  IF yearLength.type \notin {"null", "undefined"}
        THEN [both EXCEPT !.pivot.rotation.y =
                              Add(@, ScaledPeriod(yearLength.v, ORBIT_SCALE))]
        ELSE both

\* v4: the orbital advance only when yearLength != null
advanceRotationAndOrbit(body, dayLength, yearLength) ==
    LET rotationPeriod == ScaledPeriod(dayLength, ROTATION_SCALE)
        spun == [body EXCEPT !.body.rotation.y = Add(@, rotationPeriod)]
    IN  IF yearLength.type \notin {"null", "undefined"}
        THEN [spun EXCEPT !.pivot.rotation.y =
                              Add(@, ScaledPeriod(yearLength.v, ORBIT_SCALE))]
        ELSE spun

\* v1-v3: both advances, always
setPeriods(body, dayLength, yearLength) ==
    LET orbitalPeriod  == ScaledPeriod(yearLength.v, ORBIT_SCALE)
        rotationPeriod == ScaledPeriod(dayLength, ROTATION_SCALE)
    IN  [body EXCEPT !.pivot.rotation.y = Add(@, orbitalPeriod),
                     !.body.rotation.y = Add(@, rotationPeriod)]

\* a phase step that sets the whole pivot rotation (rotation.set(0, phase, 0))
RandomizePhaseResetting(created, pivotPhase, bodyPhase) ==
    [created EXCEPT !.pivot.rotation = Vec(0, pivotPhase, 0),
                    !.body.rotation.y = @ + bodyPhase]

\* v4: created.pivot.rotation.y = randomPhase; created.body.rotation.y += Math.random() * TWO_PI
RandomizePhase(created, pivotPhase, bodyPhase) ==
    [created EXCEPT !.pivot.rotation.y = pivotPhase,
                    !.body.rotation.y = @ + bodyPhase]

----------------------------------------------------------------------------
(* Event handlers *)

\* window.innerWidth / window.innerHeight
Aspect(size) == RoundDiv(size[1] * MILLI, size[2])

\* a resize handler that divides the height by the width
onWindowResizeInverted(cam, size) ==
    [cam EXCEPT !.aspect = RoundDiv(size[2] * MILLI, size[1])]

onWindowResize(cam, size) == [cam EXCEPT !.aspect = Aspect(size)]

\* v1: camera.position.x = (t * 0.0004) - 7, ...
moveCameraOriginal(cam, t) ==
    [cam EXCEPT !.position.x = (t * Fx(4, 10000)) - Fx(7, 1),
                !.rotation.x = t * Fx(1, 10000),
                !.position.y = t * Fx(-2, 100),
                !.position.z = Fx(10, 1) + (t * Fx(-8, 100))]

\* a handler that adds the scroll offsets to the present pose (+= for =)
moveCameraLinearAccumulating(cam, t) ==
    [cam EXCEPT !.position.x = @ + (t * Fx(4, 10000)),
                !.rotation.x = @ + (t * Fx(1, 10000)),
                !.position.y = @ + (t * Fx(-2, 100)),
                !.position.z = @ + (t * Fx(-8, 100))]

\* v2, v3: camera.position.x = INIT_X + (t * 0.0004), ...
moveCameraLinear(cam, t) ==
    [cam EXCEPT !.position.x = Fx(INIT_X, 1) + (t * Fx(4, 10000)),
                !.rotation.x = t * Fx(1, 10000),
                !.position.y = Fx(INIT_Y, 1) + (t * Fx(-2, 100)),
                !.position.z = Fx(INIT_Z, 1) + (t * Fx(-8, 100))]

\* a progress without the floor at 0: Math.min(1, -t / 2000)
ProgressNoFloor(t) == Min(SCROLL_DISTANCE, -t)

\* Math.min(1, Math.max(0, -t / 2000)), in units of 1 / SCROLL_DISTANCE
Progress(t) == Min(SCROLL_DISTANCE, Max(0, -t))

\* a + (b - a) * p
interpolate(a, b, p) == a + MulDiv(b - a, p, SCROLL_DISTANCE)

\* the interpolation without the clamp of the progress
moveCameraUnclamped(cam, t) ==
    [cam EXCEPT
       !.position.x = interpolate(Fx(INIT_X, 1), Fx(END_X, 1), -t),
       !.position.y = interpolate(Fx(INIT_Y, 1), Fx(END_Y, 1), -t),
       !.position.z = interpolate(Fx(INIT_Z, 1), Fx(END_Z, 1), -t),
       !.rotation.x = interpolate(0, END_ROTATION_X, -t)]

\* v4: the clamped interpolation between the start and the end pose
moveCamera(cam, t) ==
    LET progress == Progress(t)
    IN  [cam EXCEPT
           !.position.x = interpolate(Fx(INIT_X, 1), Fx(END_X, 1), progress),
           !.position.y = interpolate(Fx(INIT_Y, 1), Fx(END_Y, 1), progress),
           !.position.z = interpolate(Fx(INIT_Z, 1), Fx(END_Z, 1), progress),
           !.rotation.x = interpolate(0, END_ROTATION_X, progress)]

\* the scroll handler of the running script
OnScroll(v, cam, t) ==
    CASE v = "v1" -> moveCameraOriginal(cam, t)
      [] v \in {"v2", "v3"} -> moveCameraLinear(cam, t)
      [] OTHER -> moveCamera(cam, t)

----------------------------------------------------------------------------
(* Frame loop *)

\* a loop whose find always returns the first record (x.id === x.id)
AdvanceAllFirstData(objs, registry) ==
    [id \in DOMAIN objs |->
        advanceRotationAndOrbit(objs[id], registry[1].rotationDays,
                                registry[1].orbitalDays)]

\* v4: for every entry of bodyObjects, advance with the data found by id
AdvanceAll(objs, registry) ==
    [id \in DOMAIN objs |->
        LET data == Find(registry, id)
        IN  advanceRotationAndOrbit(objs[id], data.rotationDays, data.orbitalDays)]

\* v1-v3: the nine literal calls
AdvanceLiterals(objs, registry) ==
    [id \in DOMAIN objs |->
        LET data == Find(registry, id)
        IN  setPeriods(objs[id], data.rotationDays, data.orbitalDays)]

\* v4: the sun pulse, p = 0.5 * (1 + sin(...)) in thousandths
SunPulse(p) ==
    LET swing == p - (MILLI \div 2)
    IN  [opacity   |-> FLARE_BASE_OPACITY + RoundDiv(swing * FLARE_PULSE_AMPL, MILLI),
         scale     |-> FLARE_BASE_SCALE * (FX + RoundDiv(swing * FLARE_PULSE_AMPL, MILLI)),
         intensity |-> SUN_BASE_INTENSITY + RoundDiv(swing * SUN_PULSE_AMPL, MILLI)]

\* the objects after one run of the loop body of animate
Animated(v, objs, registry) ==
    IF v = "v4" THEN AdvanceAll(objs, registry) ELSE AdvanceLiterals(objs, registry)

----------------------------------------------------------------------------
(* Inputs of the environment *)

\* window sizes
Viewports == { <<800, 600>>, <<1920, 1080>> }

\* values of getBoundingClientRect().top: overscroll, top, halfway, far down
ScrollTops == {40, 0, -1000, -5000}

\* values of Math.random() * TWO_PI
Phases == {0, TWO_PI \div 3}

\* values of 0.5 * (1 + sin(2 pi f t)), in thousandths
PulseSamples == {250, 1000}

----------------------------------------------------------------------------
(* The state machine *)

\* new THREE.PerspectiveCamera(75, innerWidth / innerHeight, ...); camera.position.set(...)
NewCamera(v, size) ==
    [position |-> Vec(Fx(IF v = "v1" THEN LEGACY_INIT_X ELSE INIT_X, 1),
                      Fx(INIT_Y, 1), Fx(INIT_Z, 1)),
     rotation |-> Vec(0, 0, 0),
     aspect   |-> Aspect(size)]

\* the flare sprite and the sun light as constructed (v4 only)
NewSun(v) ==
    IF v = "v4"
    THEN [opacity |-> FLARE_BASE_OPACITY, scale |-> FLARE_BASE_SCALE * FX,
          intensity |-> SUN_BASE_INTENSITY]
    ELSE Undefined

Init ==
    /\ variant \in Variants
    /\ BODIES \in (IF variant = "v4" THEN Registries ELSE {PLANETS})
    /\ window \in Viewports
    /\ renderer = window
    /\ camera = NewCamera(variant, window)
    /\ sun = NewSun(variant)
    /\ scrollTop = 0
    /\ pc = "create"
    /\ idx = 1
    /\ bodyObjects = <<>>
    /\ scene = {}
    /\ frame = 0
    /\ rafPending = 0
    /\ renders = 1
    /\ calls = <<>>
    /\ randomPhase = <<>>
    /\ sameScrolls = 0
    /\ tick = [armedAt |-> 0, renderedAt |-> 0]
    /\ last = "setup"

\* where the script goes once body idx is finished
NextBody ==
    IF idx < Len(BODIES)
    THEN /\ idx' = idx + 1
         /\ pc' = "create"
    ELSE /\ idx' = idx
         /\ pc' = "resize"

\* const x = createBody(...), and in v4 bodyObjects.set(b.id, created)
CreateStep ==
    /\ pc = "create"
    /\ LET b == BODIES[idx]
           created == IF variant = "v4" THEN CreateFromData(b) ELSE CreateFromLiteral(b)
       IN  /\ bodyObjects' = (b.id :> created) @@ bodyObjects
           /\ scene' = SceneAdd(scene, b.id)
           /\ calls' = (b.id :> [tilt |-> 0, advance |-> 0]) @@ calls
    /\ IF variant = "v3" /\ idx < Len(BODIES)
       THEN /\ idx' = idx + 1
            /\ pc' = "create"
       ELSE /\ idx' = (IF variant = "v3" THEN 1 ELSE idx)
            /\ pc' = "tilt"
    /\ last' = "create"
    /\ UNCHANGED <<variant, BODIES, camera, window, renderer, scrollTop, sun,
                   frame, rafPending, renders, randomPhase, sameScrolls, tick>>

\* applyTiltAndInclination(x, tilt, inclination)
TiltStep ==
    /\ pc = "tilt"
    /\ LET b == BODIES[idx]
       IN  /\ bodyObjects' = [bodyObjects EXCEPT ![b.id] =
                 applyTiltAndInclination(@, b.axialTiltDeg, b.inclinationDeg)]
           /\ calls' = [calls EXCEPT ![b.id].tilt = @ + 1]
    /\ IF variant = "v4"
       THEN /\ pc' = "phase"
            /\ idx' = idx
       ELSE IF variant = "v3" /\ idx < Len(BODIES)
       THEN /\ idx' = idx + 1
            /\ pc' = "tilt"
       ELSE NextBody
    /\ last' = "tilt"
    /\ UNCHANGED <<variant, BODIES, scene, camera, window, renderer, scrollTop,
                   sun, frame, rafPending, renders, randomPhase, sameScrolls, tick>>

\* v4: randomize initial planet rotational and orbital positions
PhaseStep ==
    /\ pc = "phase"
    /\ \E pivotPhase \in Phases, bodyPhase \in Phases :
          LET id == BODIES[idx].id
          IN  /\ bodyObjects' = [bodyObjects EXCEPT ![id] =
                    RandomizePhase(@, pivotPhase, bodyPhase)]
              /\ randomPhase' = (id :> [pivot |-> pivotPhase, body |-> bodyPhase])
                                   @@ randomPhase
    /\ NextBody
    /\ last' = "phase"
    /\ UNCHANGED <<variant, BODIES, scene, camera, window, renderer, scrollTop,
                   sun, frame, rafPending, renders, calls, sameScrolls, tick>>

\* the script's own call onWindowResize()
StartupResize ==
    /\ pc = "resize"
    /\ renderer' = window
    /\ camera' = onWindowResize(camera, window)
    /\ pc' = "animate"
    /\ last' = "resize"
    /\ UNCHANGED <<variant, BODIES, idx, bodyObjects, scene, window, scrollTop,
                   sun, frame, rafPending, renders, calls, randomPhase,
                   sameScrolls, tick>>

\* a run of animate that also turns the camera
AnimateTurningCamera(pending) ==
    /\ frame < MaxFrames
    /\ frame' = frame + 1
    /\ rafPending' = pending + 1
    /\ bodyObjects' = Animated(variant, bodyObjects, BODIES)
    /\ tick' = [armedAt |-> 0, renderedAt |-> Cardinality(DOMAIN bodyObjects)]
    /\ calls' = [id \in DOMAIN calls |-> [calls[id] EXCEPT !.advance = @ + 1]]
    /\ IF variant = "v4"
       THEN \E p \in PulseSamples : sun' = SunPulse(p)
       ELSE sun' = sun
    /\ camera' = [camera EXCEPT !.rotation.y = @ + 1]
    /\ renders' = renders + 1
    /\ last' = "frame"
    /\ UNCHANGED <<variant, BODIES, idx, scene, window, renderer,
                   scrollTop, randomPhase, sameScrolls>>

\* animate adding a fresh sprite to the scene on every frame
AnimateAllocating(pending) ==
    /\ frame < MaxFrames
    /\ frame' = frame + 1
    /\ rafPending' = pending + 1
    /\ bodyObjects' = Animated(variant, bodyObjects, BODIES)
    /\ tick' = [armedAt |-> 0, renderedAt |-> Cardinality(DOMAIN bodyObjects)]
    /\ calls' = [id \in DOMAIN calls |-> [calls[id] EXCEPT !.advance = @ + 1]]
    /\ IF variant = "v4"
       THEN \E p \in PulseSamples : sun' = SunPulse(p)
       ELSE sun' = sun
    /\ scene' = scene \cup {<<"flare", "sprite">>}
    /\ renders' = renders + 1
    /\ last' = "frame"
    /\ UNCHANGED <<variant, BODIES, idx, camera, window, renderer,
                   scrollTop, randomPhase, sameScrolls>>

\* animate without its requestAnimationFrame line
AnimateNotRearming(pending) ==
    /\ frame < MaxFrames
    /\ frame' = frame + 1
    /\ rafPending' = pending
    /\ bodyObjects' = Animated(variant, bodyObjects, BODIES)
    /\ tick' = [armedAt |-> 0, renderedAt |-> Cardinality(DOMAIN bodyObjects)]
    /\ calls' = [id \in DOMAIN calls |-> [calls[id] EXCEPT !.advance = @ + 1]]
    /\ IF variant = "v4"
       THEN \E p \in PulseSamples : sun' = SunPulse(p)
       ELSE sun' = sun
    /\ renders' = renders + 1
    /\ last' = "frame"
    /\ UNCHANGED <<variant, BODIES, idx, scene, camera, window, renderer,
                   scrollTop, randomPhase, sameScrolls>>

\* animate with requestAnimationFrame moved to its last line
AnimateRearmingLast(pending) ==
    /\ frame < MaxFrames
    /\ frame' = frame + 1
    /\ bodyObjects' = Animated(variant, bodyObjects, BODIES)
    /\ calls' = [id \in DOMAIN calls |-> [calls[id] EXCEPT !.advance = @ + 1]]
    /\ IF variant = "v4"
       THEN \E p \in PulseSamples : sun' = SunPulse(p)
       ELSE sun' = sun
    /\ renders' = renders + 1
    /\ rafPending' = pending + 1
    /\ tick' = [armedAt |-> Cardinality(DOMAIN bodyObjects),
                renderedAt |-> Cardinality(DOMAIN bodyObjects)]
    /\ last' = "frame"
    /\ UNCHANGED <<variant, BODIES, idx, scene, camera, window, renderer,
                   scrollTop, randomPhase, sameScrolls>>

\* one run of animate(): re-arm, advance every body, pulse the sun, render
Animate(pending) ==
    /\ frame < MaxFrames
    /\ frame' = frame + 1
    /\ rafPending' = pending + 1
    /\ bodyObjects' = Animated(variant, bodyObjects, BODIES)
    /\ tick' = [armedAt |-> 0, renderedAt |-> Cardinality(DOMAIN bodyObjects)]
    /\ calls' = [id \in DOMAIN calls |-> [calls[id] EXCEPT !.advance = @ + 1]]
    /\ IF variant = "v4"
       THEN \E p \in PulseSamples : sun' = SunPulse(p)
       ELSE sun' = sun
    /\ renders' = renders + 1
    /\ last' = "frame"
    /\ UNCHANGED <<variant, BODIES, idx, scene, camera, window, renderer,
                   scrollTop, randomPhase, sameScrolls>>

\* the script's call animate()
StartAnimate ==
    /\ pc = "animate"
    /\ pc' = "idle"
    /\ Animate(rafPending)

\* the display refresh runs a pending frame callback
Frame ==
    /\ pc = "idle"
    /\ rafPending > 0
    /\ pc' = pc
    /\ Animate(rafPending - 1)

\* a scroll handler that also advances the bodies
ScrollAlsoAdvancing ==
    /\ pc = "idle"
    /\ \E t \in ScrollTops :
          /\ scrollTop' = t
          /\ camera' = OnScroll(variant, camera, t)
          /\ sameScrolls' = (IF t = scrollTop THEN Min(sameScrolls + 1, 2) ELSE 1)
    /\ bodyObjects' = Animated(variant, bodyObjects, BODIES)
    /\ last' = "scroll"
    /\ UNCHANGED <<variant, BODIES, pc, idx, scene, window, renderer,
                   sun, frame, rafPending, renders, calls, randomPhase, tick>>

\* a scroll event: the page offset changes and the handler runs
Scroll ==
    /\ pc = "idle"
    /\ \E t \in ScrollTops :
          /\ scrollTop' = t
          /\ camera' = OnScroll(variant, camera, t)
          /\ sameScrolls' = (IF t = scrollTop THEN Min(sameScrolls + 1, 2) ELSE 1)
    /\ last' = "scroll"
    /\ UNCHANGED <<variant, BODIES, pc, idx, bodyObjects, scene, window, renderer,
                   sun, frame, rafPending, renders, calls, randomPhase, tick>>

\* a resize event: the window changes size and the handler runs
Resize ==
    /\ pc = "idle"
    /\ \E size \in Viewports :
          /\ window' = size
          /\ renderer' = size
          /\ camera' = onWindowResize(camera, size)
    /\ last' = "resize"
    /\ UNCHANGED <<variant, BODIES, pc, idx, bodyObjects, scene, scrollTop, sun,
                   frame, rafPending, renders, calls, randomPhase, sameScrolls, tick>>

Next ==
    \/ CreateStep
    \/ TiltStep
    \/ PhaseStep
    \/ StartupResize
    \/ StartAnimate
    \/ Frame
    \/ Scroll
    \/ Resize

Spec == Init /\ [][Next]_vars

\* the display keeps refreshing: a frame callback that stays pending is run
SpecFair == Spec /\ WF_vars(Frame)

\* the data-driven script started on a registry with a zero day or year length
InitMalformed ==
    /\ variant = "v4"
    /\ BODIES \in MalformedRegistries
    /\ window \in Viewports
    /\ renderer = window
    /\ camera = NewCamera(variant, window)
    /\ sun = NewSun(variant)
    /\ scrollTop = 0
    /\ pc = "create"
    /\ idx = 1
    /\ bodyObjects = <<>>
    /\ scene = {}
    /\ frame = 0
    /\ rafPending = 0
    /\ renders = 1
    /\ calls = <<>>
    /\ randomPhase = <<>>
    /\ sameScrolls = 0
    /\ tick = [armedAt |-> 0, renderedAt |-> 0]
    /\ last = "setup"

SpecMalformed == InitMalformed /\ [][Next]_vars

----------------------------------------------------------------------------
(* Vocabulary of the claims *)

\* the registry record of a created body
DataOf(id) == Find(BODIES, id)

\* ringInnerKm / ringOuterKm (v4) or ringRadii (v1-v3) were supplied
RingSupplied(b) ==
    IF "ringRadii" \in DOMAIN b
    THEN b.ringRadii.type = "object"
    ELSE {"ringInnerKm", "ringOuterKm"} \subseteq DOMAIN b

HasRing(obj) == "ring" \in DOMAIN obj

\* the step is one run of animate
FrameStep == frame' = frame + 1

\* the frame loop has started or is about to
LoopStarted == pc \in {"animate", "idle"}

SpinOf(obj) == obj.body.rotation.y

OrbitAngleOf(obj) == obj.pivot.rotation.y

\* the rotation components tilt and inclination are stored in
TiltPartsOf(obj) ==
    << obj.body.rotation.x, obj.pivot.rotation.x, obj.orbit.rotation.x,
       IF HasRing(obj) THEN obj.ring.rotation.x ELSE 0 >>

\* camera position and rotation
PoseOf(cam) == <<cam.position, cam.rotation>>

----------------------------------------------------------------------------
(* C1: in the data-driven script a created body has a ring if and only if  *)
(* its registry record supplies ringInnerKm / ringOuterKm.                 *)
(* The script does not do this: it always passes a ringParam object.       *)
C1_RingIffRadiiSupplied ==
    variant = "v4" =>
        \A id \in DOMAIN bodyObjects :
            HasRing(bodyObjects[id]) <=> RingSupplied(DataOf(id))

(* C2: in the data-driven script, a body whose orbitalDays is null keeps   *)
(* the pivot rotation it had when the frame loop started, through every    *)
(* step, while its spin changes in every run of animate; a body with       *)
(* orbitalDays set has its pivot angle changed in every run of animate.    *)
C2_NullOrbitInv ==
    (variant = "v4" /\ LoopStarted) =>
        \A id \in DOMAIN bodyObjects :
            DataOf(id).orbitalDays = Null =>
                /\ OrbitAngleOf(bodyObjects[id]) = randomPhase[id].pivot
                /\ bodyObjects[id].pivot.rotation.z = 0

C2_NullOrbitStep ==
    (variant = "v4" /\ LoopStarted) =>
        \A id \in DOMAIN bodyObjects :
            /\ (DataOf(id).orbitalDays = Null) =>
                  /\ bodyObjects'[id].pivot = bodyObjects[id].pivot
                  /\ FrameStep => SpinOf(bodyObjects'[id]) # SpinOf(bodyObjects[id])
            /\ (DataOf(id).orbitalDays # Null /\ FrameStep) =>
                  OrbitAngleOf(bodyObjects'[id]) # OrbitAngleOf(bodyObjects[id])

C2_NullOrbitNeverAdvances == []C2_NullOrbitInv /\ [][C2_NullOrbitStep]_vars

C2_Witness ==
    /\ variant = "v4"
    /\ \E id \in DOMAIN bodyObjects :
          /\ DataOf(id).orbitalDays = Null
          /\ calls[id].advance >= 2
          /\ SpinOf(bodyObjects[id]) # randomPhase[id].body
    /\ \E id \in DOMAIN bodyObjects :
          /\ DataOf(id).orbitalDays # Null
          /\ calls[id].advance >= 2

(* C3: for a body with orbitalDays = y > 0, every run of animate strictly  *)
(* increases pivot.rotation.y, and no other step after the loop's start    *)
(* changes it: the pivot angle never decreases and never stays equal       *)
(* between two consecutive frames.                                         *)
C3_Step ==
    LoopStarted =>
        \A id \in DOMAIN bodyObjects :
            (DataOf(id).orbitalDays.type = "number" /\ DataOf(id).orbitalDays.v > 0) =>
                IF FrameStep
                THEN OrbitAngleOf(bodyObjects'[id]) > OrbitAngleOf(bodyObjects[id])
                ELSE OrbitAngleOf(bodyObjects'[id]) = OrbitAngleOf(bodyObjects[id])

C3_PivotStrictlyIncreasing == [][C3_Step]_vars

C3_Witness ==
    /\ frame >= 2
    /\ last = "frame"
    /\ \E id \in DOMAIN bodyObjects :
          /\ DataOf(id).orbitalDays.type = "number"
          /\ DataOf(id).orbitalDays.v > 0
          /\ calls[id].advance = frame

(* C4: a body with a negative day length spins backwards in every run of   *)
(* animate; two bodies whose day lengths are d and -d get spin deltas that *)
(* are exact negations of each other; and two bodies with the same year    *)
(* length get the same pivot delta whatever the signs of their day lengths.*)
C4_Step ==
    FrameStep =>
        LET spin(id)  == SpinOf(bodyObjects'[id]) - SpinOf(bodyObjects[id])
            orbit(id) == OrbitAngleOf(bodyObjects'[id]) - OrbitAngleOf(bodyObjects[id])
        IN  /\ \A id \in DOMAIN bodyObjects :
                  DataOf(id).rotationDays < 0 => spin(id) < 0
            /\ \A a, b \in DOMAIN bodyObjects :
                  /\ (DataOf(a).rotationDays = -DataOf(b).rotationDays) =>
                        spin(a) = -spin(b)
                  /\ (DataOf(a).orbitalDays = DataOf(b).orbitalDays) =>
                        orbit(a) = orbit(b)

C4_RetrogradeSpin == [][C4_Step]_vars

C4_Witness ==
    /\ last = "frame"
    /\ frame >= 2
    /\ \E a, b \in DOMAIN bodyObjects :
          /\ DataOf(a).rotationDays < 0
          /\ DataOf(a).rotationDays = -DataOf(b).rotationDays
          /\ DataOf(a).orbitalDays = DataOf(b).orbitalDays
          /\ SpinOf(bodyObjects[a]) < randomPhase[a].body
          /\ SpinOf(bodyObjects[b]) > randomPhase[b].body

(* C5: every created body is tilted exactly once, after its creation and   *)
(* before the first run of animate; and once a body is tilted no step      *)
(* (frame, random phase, scroll, resize) changes rotation.x of its body,   *)
(* ring, pivot or orbit path.                                              *)
C5_Inv ==
    /\ \A id \in DOMAIN calls :
          /\ id \in DOMAIN bodyObjects
          /\ calls[id].tilt <= 1
          /\ calls[id].advance > 0 => calls[id].tilt = 1
    /\ LoopStarted =>
          /\ DOMAIN bodyObjects = {BODIES[i].id : i \in 1..Len(BODIES)}
          /\ \A id \in DOMAIN bodyObjects : calls[id].tilt = 1
    /\ frame > 0 => LoopStarted

C5_Step ==
    \A id \in DOMAIN bodyObjects :
        calls[id].tilt = 1 =>
            /\ calls'[id].tilt = 1
            /\ TiltPartsOf(bodyObjects'[id]) = TiltPartsOf(bodyObjects[id])
            /\ HasRing(bodyObjects'[id]) = HasRing(bodyObjects[id])

C5_TiltOnceNeverReset == []C5_Inv /\ [][C5_Step]_vars

C5_Witness ==
    /\ pc = "idle"
    /\ frame >= 2
    /\ scrollTop # 0
    /\ \E id \in DOMAIN bodyObjects :
          /\ HasRing(bodyObjects[id])
          /\ calls[id].tilt = 1
          /\ bodyObjects[id].pivot.rotation.x # 0
          /\ bodyObjects[id].body.rotation.x # 0

----------------------------------------------------------------------------
(* Tilt and advance in any order: one body, created (and in v4 given its   *)
(* random phase), then tilted once at any point among its advances.        *)

InitReorder ==
    /\ variant \in Variants
    /\ BODIES \in (IF variant = "v4" THEN Registries ELSE {PLANETS})
    /\ idx \in 1..Len(BODIES)
    /\ window \in Viewports
    /\ renderer = window
    /\ camera = NewCamera(variant, window)
    /\ sun = NewSun(variant)
    /\ scrollTop = 0
    /\ pc = "reorder"
    /\ scene = SceneAdd({}, BODIES[idx].id)
    /\ frame = 0
    /\ rafPending = 0
    /\ renders = 1
    /\ calls = (BODIES[idx].id :> [tilt |-> 0, advance |-> 0])
    /\ sameScrolls = 0
    /\ tick = [armedAt |-> 0, renderedAt |-> 0]
    /\ last = "create"
    /\ IF variant = "v4"
       THEN \E pivotPhase \in Phases, bodyPhase \in Phases :
               /\ randomPhase = (BODIES[idx].id :>
                                    [pivot |-> pivotPhase, body |-> bodyPhase])
               /\ bodyObjects = (BODIES[idx].id :>
                     RandomizePhase(CreateFromData(BODIES[idx]), pivotPhase, bodyPhase))
       ELSE /\ randomPhase = <<>>
            /\ bodyObjects = (BODIES[idx].id :> CreateFromLiteral(BODIES[idx]))

\* the tilt, wherever it falls among the advances
ReorderTilt ==
    /\ pc = "reorder"
    /\ LET b == BODIES[idx]
       IN  /\ calls[b.id].tilt = 0
           /\ bodyObjects' = [bodyObjects EXCEPT ![b.id] =
                 applyTiltAndInclination(@, b.axialTiltDeg, b.inclinationDeg)]
           /\ calls' = [calls EXCEPT ![b.id].tilt = @ + 1]
    /\ last' = "tilt"
    /\ UNCHANGED <<variant, BODIES, pc, idx, scene, camera, window, renderer,
                   scrollTop, sun, frame, rafPending, renders, randomPhase,
                   sameScrolls, tick>>

\* one advance of the body, as animate does it
ReorderAdvance ==
    /\ pc = "reorder"
    /\ frame < MaxFrames
    /\ frame' = frame + 1
    /\ bodyObjects' = Animated(variant, bodyObjects, BODIES)
    /\ calls' = [id \in DOMAIN calls |-> [calls[id] EXCEPT !.advance = @ + 1]]
    /\ last' = "frame"
    /\ UNCHANGED <<variant, BODIES, pc, idx, scene, camera, window, renderer,
                   scrollTop, sun, rafPending, renders, randomPhase, sameScrolls, tick>>

NextReorder == ReorderTilt \/ ReorderAdvance

SpecReorder == InitReorder /\ [][NextReorder]_vars

\* the angles Math.random() set (none in v1-v3, none before the phase step)
PhaseOf(id) ==
    IF id \in DOMAIN randomPhase THEN randomPhase[id] ELSE [pivot |-> 0, body |-> 0]

(* C6: tilt is additive and commutes with advance: once a body is tilted,  *)
(* after N advances its stored rotation is the creation offset plus the    *)
(* tilt (x components) and the initial angle plus N times the per-frame    *)
(* delta (y components), without renormalisation, wherever the tilt fell   *)
(* among the N advances.                                                   *)
C6_TiltCommutesWithAdvance ==
    \A id \in DOMAIN bodyObjects :
        calls[id].tilt = 1 =>
            LET obj  == bodyObjects[id]
                data == DataOf(id)
                n    == calls[id].advance
                tilt == data.axialTiltDeg * 12
                incl == data.inclinationDeg * 12
                spin  == SpinOf(obj) - PhaseOf(id).body
                orbit == OrbitAngleOf(obj) - PhaseOf(id).pivot
            IN  /\ obj.body.rotation.x = tilt
                /\ obj.pivot.rotation.x = incl
                /\ obj.orbit.rotation.x = (TWO_PI \div 4) + incl
                /\ HasRing(obj) => obj.ring.rotation.x = tilt - (TWO_PI \div 4)
                /\ spin = n * ScaledPeriod(data.rotationDays, ROTATION_SCALE)
                /\ IF data.orbitalDays.type = "number"
                   THEN orbit = n * ScaledPeriod(data.orbitalDays.v, ORBIT_SCALE)
                   ELSE orbit = 0
                /\ obj.body.rotation.z = 0 /\ obj.pivot.rotation.z = 0

\* the tilt came after at least two advances, and another advance after it
C6_Witness ==
    /\ pc = "reorder"
    /\ last = "frame"
    /\ frame = MaxFrames
    /\ \E id \in DOMAIN bodyObjects :
          /\ calls[id].tilt = 1
          /\ calls[id].advance = MaxFrames
          /\ HasRing(bodyObjects[id])
          /\ bodyObjects[id].pivot.rotation.x # 0

(* C7: in the clamped variant with D = 2000, after a scroll to t = -1000   *)
(* the progress is one half and the camera position and rotation.x are     *)
(* exactly halfway between the start and the end pose; after a scroll to   *)
(* t = 0 the camera is exactly in the start pose; after a scroll to        *)
(* t = -5000 it is exactly in the end pose.                                *)
C7_ClampedScenario ==
    (variant = "v4" /\ sameScrolls > 0) =>
        /\ scrollTop = -1000 =>
              /\ 2 * camera.position.x = (0 + 0) * FX
              /\ 2 * camera.position.y = (0 + 300) * FX
              /\ 2 * camera.position.z = (10 + 1500) * FX
              /\ 2 * camera.rotation.x * 100 = (0 - 35) * FX
        /\ scrollTop = 0 =>
              /\ camera.position = Vec(0, 0, 10 * FX)
              /\ camera.rotation.x = 0
        /\ scrollTop = -5000 =>
              /\ camera.position = Vec(0, 300 * FX, 1500 * FX)
              /\ camera.rotation.x * 100 = -35 * FX
        /\ camera.rotation.y = 0 /\ camera.rotation.z = 0

C7_Witness ==
    /\ variant = "v4"
    /\ last = "scroll"
    /\ scrollTop = -1000
    /\ camera.position.z = 755 * FX

(* C8: moveCamera is idempotent for a scroll offset, in every variant:     *)
(* the pose a scroll event leaves depends on the offset alone (it is the   *)
(* pose the handler gives a freshly constructed camera), and running the   *)
(* handler again at the same offset leaves the pose as it is.              *)
C8_Step ==
    last' = "scroll" =>
        /\ PoseOf(camera') =
              PoseOf(OnScroll(variant, NewCamera(variant, window), scrollTop'))
        /\ (sameScrolls > 0 /\ scrollTop' = scrollTop) =>
              PoseOf(camera') = PoseOf(camera)

C8_ScrollIdempotent == [][C8_Step]_vars

C8_Witness ==
    /\ last = "scroll"
    /\ sameScrolls = 2
    /\ scrollTop = -1000
    /\ frame >= 2
    /\ PoseOf(camera) # PoseOf(NewCamera(variant, window))

(* C9: a resize sets camera.aspect to the new innerWidth / innerHeight and *)
(* leaves the camera position and rotation and every body, pivot, ring and *)
(* orbit transform unchanged.                                              *)
C9_Step ==
    last' = "resize" =>
        /\ 2 * Abs((camera'.aspect * window'[2]) - (1000 * window'[1])) <= window'[2]
        /\ PoseOf(camera') = PoseOf(camera)
        /\ bodyObjects' = bodyObjects
        /\ scene' = scene

C9_ResizeOnlyAspect == [][C9_Step]_vars

C9_Witness ==
    /\ last = "resize"
    /\ pc = "idle"
    /\ frame >= 2
    /\ scrollTop = -1000
    /\ window = <<1920, 1080>>
    /\ camera.aspect = 1778

(* C10: the scroll handler changes nothing but the camera: every body,     *)
(* ring, pivot and orbit-path transform, the id-to-node map and the scene  *)
(* stay as they are; and a run of animate never changes the camera's       *)
(* position or rotation.                                                   *)
C10_Step ==
    /\ last' = "scroll" =>
          /\ bodyObjects' = bodyObjects
          /\ scene' = scene
          /\ sun' = sun
    /\ FrameStep => PoseOf(camera') = PoseOf(camera)

C10_DisjointWrites == [][C10_Step]_vars

C10_Witness ==
    /\ pc = "idle"
    /\ last = "frame"
    /\ frame >= 2
    /\ sameScrolls >= 1
    /\ scrollTop = -5000
    /\ PoseOf(camera) # PoseOf(NewCamera(variant, window))

----------------------------------------------------------------------------
(* C11: every run of animate advances every body of the registry exactly   *)
(* once, by the per-frame deltas of that body's own rotationDays and       *)
(* orbitalDays, and issues exactly one render call, made when all bodies   *)
(* of the run have been advanced.                                          *)
C11_Inv ==
    /\ renders = frame + 1
    /\ \A id \in DOMAIN calls : LoopStarted => calls[id].advance = frame
    /\ frame > 0 => tick.renderedAt = Len(BODIES)

C11_Step ==
    FrameStep =>
        /\ renders' = renders + 1
        /\ \A i \in 1..Len(BODIES) :
              LET b  == BODIES[i]
                  id == b.id
              IN  /\ id \in DOMAIN bodyObjects
                  /\ calls'[id].advance = calls[id].advance + 1
                  /\ SpinOf(bodyObjects'[id]) - SpinOf(bodyObjects[id])
                        = ScaledPeriod(b.rotationDays, ROTATION_SCALE)
                  /\ OrbitAngleOf(bodyObjects'[id]) - OrbitAngleOf(bodyObjects[id])
                        = (IF b.orbitalDays.type = "number"
                           THEN ScaledPeriod(b.orbitalDays.v, ORBIT_SCALE)
                           ELSE 0)

C11_EveryBodyOncePerTick == []C11_Inv /\ [][C11_Step]_vars

C11_Witness ==
    /\ last = "frame"
    /\ frame >= 2
    /\ Len(BODIES) >= 3
    /\ renders = 3
    /\ \E i, j \in 1..Len(BODIES) :
          BODIES[i].rotationDays # BODIES[j].rotationDays

----------------------------------------------------------------------------
(* C12 as stated: the frame callback is re-armed only after the current    *)
(* iteration's work (all body advances and the render call) is done.       *)
C12_RearmedAfterWork ==
    frame > 0 => tick.armedAt = Len(BODIES)

(* C12, amended: animate re-arms the frame callback on its first line,     *)
(* before any body is advanced or the frame rendered. The iterations still *)
(* do not overlap: the callback requested by a run is pending, alone,      *)
(* until that run has advanced every body and rendered, and each frame     *)
(* step runs one pending callback and requests one.                        *)
C12_Inv ==
    /\ rafPending <= 1
    /\ frame > 0 =>
          /\ tick.armedAt = 0
          /\ tick.renderedAt = Len(BODIES)
          /\ rafPending = 1
          /\ \A id \in DOMAIN bodyObjects : calls[id].advance = frame

C12_Step ==
    (FrameStep /\ frame > 0) =>
        /\ rafPending = 1
        /\ rafPending' = 1
        /\ renders' = renders + 1

C12_RearmedFirstNoOverlap == []C12_Inv /\ [][C12_Step]_vars

C12_Witness ==
    /\ pc = "idle"
    /\ last = "frame"
    /\ frame = 2
    /\ rafPending = 1
    /\ tick.armedAt = 0
    /\ tick.renderedAt = 2
    /\ Len(BODIES) = 2

----------------------------------------------------------------------------
(* C13: once animate() has been called, exactly one frame callback is      *)
(* pending in every state between two frames, never more than one, and     *)
(* under a fair display refresh each pending callback runs: frames are     *)
(* counted one at a time and the count always reaches the bound put on the *)
(* frame counter, whatever scroll and resize events come in between.       *)
C13_OnePending ==
    /\ rafPending <= 1
    /\ pc = "idle" => rafPending = 1
    /\ pc # "idle" => rafPending = 0

C13_LoopNeverStops ==
    /\ []C13_OnePending
    /\ [][frame' \in {frame, frame + 1}]_vars
    /\ (pc = "idle") ~> (frame = MaxFrames)

C13_Witness ==
    /\ pc = "idle"
    /\ frame = MaxFrames
    /\ rafPending = 1
    /\ last = "frame"
    /\ renders = MaxFrames + 1

----------------------------------------------------------------------------
(* C14: once the scene is built, bodyObjects has exactly one entry per     *)
(* registry record, keyed by that record's id, and the scene holds exactly *)
(* one pivot and one orbit path per id; afterwards no frame, scroll or     *)
(* resize adds, removes or replaces an entry or adds a node to the scene:  *)
(* only rotation components of the existing nodes change.                  *)
RegistryIds == {BODIES[i].id : i \in 1..Len(BODIES)}

\* what identifies a created node: its parts, geometry, texture, parent and offset
NodeIdentity(obj) ==
    [part \in DOMAIN obj |->
        [f \in DOMAIN obj[part] \ {"rotation"} |-> obj[part][f]]]

C14_Inv ==
    LoopStarted =>
        /\ DOMAIN bodyObjects = RegistryIds
        /\ Cardinality(DOMAIN bodyObjects) = Len(BODIES)
        /\ scene = UNION {{<<id, "pivot">>, <<id, "orbit">>} : id \in RegistryIds}
        /\ Cardinality(scene) = 2 * Len(BODIES)

C14_Step ==
    LoopStarted =>
        /\ DOMAIN bodyObjects' = DOMAIN bodyObjects
        /\ scene' = scene
        /\ \A id \in DOMAIN bodyObjects :
              NodeIdentity(bodyObjects'[id]) = NodeIdentity(bodyObjects[id])

C14_MapFixedAfterBuild == []C14_Inv /\ [][C14_Step]_vars

C14_Witness ==
    /\ variant = "v4"
    /\ pc = "idle"
    /\ last = "resize"
    /\ frame = MaxFrames
    /\ sameScrolls > 0
    /\ Len(BODIES) = 3
    /\ Cardinality(DOMAIN bodyObjects) = 3
    /\ Cardinality(scene) = 6

----------------------------------------------------------------------------
(* C15: a record with a zero rotationDays or orbitalDays is turned away    *)
(* when the registry is loaded, so whatever the registry holds, no body or *)
(* pivot rotation is ever non-finite.                                      *)
IsFinite(x) == x # INFINITY

C15_RotationsFinite ==
    \A id \in DOMAIN bodyObjects :
        /\ IsFinite(SpinOf(bodyObjects[id]))
        /\ IsFinite(OrbitAngleOf(bodyObjects[id]))

----------------------------------------------------------------------------
(* C16: a ring is a child of the pivot its body is a child of, at the      *)
(* body's offset, and the orbit path is in the scene and not a child of    *)
(* the pivot; a frame changes neither the ring's own rotation or position  *)
(* nor the orbit path, so the ring moves with the pivot only and the orbit *)
(* path does not move.                                                     *)
C16_Inv ==
    \A id \in DOMAIN bodyObjects :
        LET obj == bodyObjects[id]
        IN  /\ "body" \in obj.pivot.children
            /\ "orbit" \notin obj.pivot.children
            /\ <<id, "orbit">> \in scene
            /\ HasRing(obj) =>
                  /\ "ring" \in obj.pivot.children
                  /\ obj.ring.position = obj.body.position

C16_Step ==
    FrameStep =>
        \A id \in DOMAIN bodyObjects :
            /\ bodyObjects'[id].orbit = bodyObjects[id].orbit
            /\ HasRing(bodyObjects[id]) =>
                  /\ HasRing(bodyObjects'[id])
                  /\ bodyObjects'[id].ring = bodyObjects[id].ring

C16_RingRidesPivotOnly == []C16_Inv /\ [][C16_Step]_vars

C16_Witness ==
    /\ last = "frame"
    /\ frame = 2
    /\ "saturn" \in DOMAIN bodyObjects
    /\ HasRing(bodyObjects["saturn"])
    /\ bodyObjects["saturn"].ring.rotation.y = 0
    /\ SpinOf(bodyObjects["saturn"]) # 0
    /\ OrbitAngleOf(bodyObjects["saturn"]) # 0

----------------------------------------------------------------------------
(* C17: in the clamped variant, for every scroll offset t (overscroll and  *)
(* offsets beyond -D included) each camera coordinate and rotation.x lies  *)
(* between its start and its end value inclusive, and for offsets          *)
(* t1 <= t2 the progress for t1 is at least the progress for t2 and the    *)
(* pose for t1 is at least as far from the start pose as the pose for t2:  *)
(* scrolling further down never moves the camera back.                     *)

\* offsets around the two ends of the clamp, with those the scroll events use
OffsetSamples ==
    ScrollTops \cup {1, -1, 1 - SCROLL_DISTANCE, -SCROLL_DISTANCE,
                     -SCROLL_DISTANCE - 1, -2 * SCROLL_DISTANCE}

Between(a, b, x) == Min(a, b) <= x /\ x <= Max(a, b)

WithinPoses(cam) ==
    /\ Between(Fx(INIT_X, 1), Fx(END_X, 1), cam.position.x)
    /\ Between(Fx(INIT_Y, 1), Fx(END_Y, 1), cam.position.y)
    /\ Between(Fx(INIT_Z, 1), Fx(END_Z, 1), cam.position.z)
    /\ Between(0, END_ROTATION_X, cam.rotation.x)

\* camera `further` is at least as far along the path from start to end as `nearer`
NotBehind(further, nearer) ==
    /\ Abs(further.position.x - Fx(INIT_X, 1)) >= Abs(nearer.position.x - Fx(INIT_X, 1))
    /\ Abs(further.position.y - Fx(INIT_Y, 1)) >= Abs(nearer.position.y - Fx(INIT_Y, 1))
    /\ Abs(further.position.z - Fx(INIT_Z, 1)) >= Abs(nearer.position.z - Fx(INIT_Z, 1))
    /\ Abs(further.rotation.x) >= Abs(nearer.rotation.x)

C17_Inv ==
    variant = "v4" =>
        /\ WithinPoses(camera)
        /\ \A t \in OffsetSamples : WithinPoses(moveCamera(camera, t))
        /\ \A t1, t2 \in OffsetSamples :
              t1 <= t2 =>
                 /\ Progress(t1) >= Progress(t2)
                 /\ NotBehind(moveCamera(camera, t1), moveCamera(camera, t2))

C17_Step ==
    (variant = "v4" /\ last' = "scroll" /\ sameScrolls > 0 /\ scrollTop' <= scrollTop)
        => NotBehind(camera', camera)

C17_ClampedBoundedMonotone == []C17_Inv /\ [][C17_Step]_vars

C17_Witness ==
    /\ variant = "v4"
    /\ last = "scroll"
    /\ scrollTop = 40
    /\ sameScrolls = 1
    /\ frame = 1
    /\ camera.position = Vec(Fx(INIT_X, 1), Fx(INIT_Y, 1), Fx(INIT_Z, 1))
    /\ camera.rotation.x = 0

----------------------------------------------------------------------------
(* C18: in every version of createBody the body's offset from its pivot,   *)
(* the ring's offset (when there is a ring) and the radius of the orbit    *)
(* torus are equal, both offsets lying on the x axis; the orbit path is    *)
(* added to the scene and is not a child of the pivot.                     *)
C18_OffsetsEqualOrbitRadius ==
    \A id \in DOMAIN bodyObjects :
        LET obj == bodyObjects[id]
            r   == obj.orbit.geometry.radius
        IN  /\ obj.body.position = Vec(r, 0, 0)
            /\ HasRing(obj) => obj.ring.position = Vec(r, 0, 0)
            /\ <<id, "orbit">> \in scene
            /\ <<id, "pivot">> \in scene
            /\ obj.pivot.children \subseteq {"body", "ring"}

C18_Witness ==
    /\ variant \in {"v1", "v2", "v3"}
    /\ pc = "idle"
    /\ frame = MaxFrames
    /\ last = "scroll"
    /\ "saturn" \in DOMAIN bodyObjects
    /\ HasRing(bodyObjects["saturn"])
    /\ bodyObjects["saturn"].orbit.geometry.radius > 0
    /\ bodyObjects["saturn"].ring.position.x = bodyObjects["saturn"].orbit.geometry.radius
    /\ \E id \in DOMAIN bodyObjects : ~HasRing(bodyObjects[id])

----------------------------------------------------------------------------
(* C19: frames and scroll events commute. However they were interleaved,   *)
(* the body and pivot rotations are those of the number of frames run      *)
(* (start angle plus that many per-frame deltas) and the camera pose is    *)
(* that of the last scroll offset alone; and in any state, running a frame *)
(* does not change what a scroll would do to the camera, nor a scroll what *)
(* a frame would do to the bodies.                                         *)
StartAngles(id) ==
    IF id \in DOMAIN randomPhase
    THEN randomPhase[id]
    ELSE [pivot |-> 0, body |-> 0]

AfterFrames(id, n) ==
    LET b == DataOf(id)
    IN  [body  |-> StartAngles(id).body + n * ScaledPeriod(b.rotationDays, ROTATION_SCALE),
         pivot |-> StartAngles(id).pivot
                     + (IF b.orbitalDays.type = "number"
                        THEN n * ScaledPeriod(b.orbitalDays.v, ORBIT_SCALE)
                        ELSE 0)]

AfterLastScroll ==
    IF sameScrolls > 0
    THEN PoseOf(OnScroll(variant, NewCamera(variant, window), scrollTop))
    ELSE PoseOf(NewCamera(variant, window))

C19_Inv ==
    pc = "idle" =>
        /\ \A id \in DOMAIN bodyObjects :
              /\ SpinOf(bodyObjects[id]) = AfterFrames(id, frame).body
              /\ OrbitAngleOf(bodyObjects[id]) = AfterFrames(id, frame).pivot
        /\ PoseOf(camera) = AfterLastScroll

C19_Step ==
    /\ FrameStep =>
          \A t \in ScrollTops :
              PoseOf(OnScroll(variant, camera', t)) = PoseOf(OnScroll(variant, camera, t))
    /\ (pc = "idle" /\ last' = "scroll") =>
          Animated(variant, bodyObjects', BODIES) = Animated(variant, bodyObjects, BODIES)

C19_FramesAndScrollsCommute == []C19_Inv /\ [][C19_Step]_vars

C19_Witness ==
    /\ pc = "idle"
    /\ last = "scroll"
    /\ frame = MaxFrames
    /\ scrollTop = -1000
    /\ sameScrolls = 1
    /\ PoseOf(camera) # PoseOf(NewCamera(variant, window))
    /\ \E id \in DOMAIN bodyObjects :
          SpinOf(bodyObjects[id]) # StartAngles(id).body

====
